---- MODULE Spec2Model ----
(***************************************************************************)
(* Model of lan-discovery's hybrid scan (LanDiscovery.startHybridScan in   *)
(* index.js) driven by ScannerARP.start (scanner-arp.js).                  *)
(*                                                                         *)
(* JavaScript runs every callback to completion, so each action below is   *)
(* one callback (or one synchronous stretch between two awaits).  The      *)
(* ARP pass emits all its response events and its complete event without   *)
(* returning to the event loop, so no ping callback, lookup completion or  *)
(* timer runs before startHybridScan has returned.                         *)
(***************************************************************************)
EXTENDS Integers, Sequences, FiniteSets, TLC

\* ------------------------------------------------------------------------
\* Bounds of the model
\* ------------------------------------------------------------------------

\* longest list of devices parsed from one arp-scan output
MaxParsed == 3

\* the clock stops advancing at this value unless a timer is still waiting
MaxTime == 4

\* longest ipArrayToScan given to startScan
MaxTargets == 2

\* number of response events a harness emits on scannerARP
MaxFeed == 1

\* devices listed by the ARP pass that precedes the harness
MaxPassBeforeFeed == 2

\* ------------------------------------------------------------------------
\* Inputs
\* ------------------------------------------------------------------------

\* value of JavaScript's null
null == "null"

\* objParam.interval values tried: unpaced, and paced with a spacing of 2
Intervals == {0, 2}

\* Date.now() when the run starts; it is far larger than any interval
StartTime == 2

\* the broadcast address of the interface (block.broadcast)
broadcastIP == "10.0.0.255"

\* addresses arp-scan may report
Ips == {"10.0.0.5", "10.0.0.23", "10.0.0.100"}

\* the characters of each address string
Chars(ip) ==
    CASE ip = "10.0.0.5"   -> <<"1","0",".","0",".","0",".","5">>
      [] ip = "10.0.0.23"  -> <<"1","0",".","0",".","0",".","2","3">>
      [] ip = "10.0.0.100" -> <<"1","0",".","0",".","0",".","1","0","0">>
      [] ip = "10.0.0.255" -> <<"1","0",".","0",".","0",".","2","5","5">>

\* {ip, mac} entries the output parser may return; 10.0.0.5 answers with
\* two different MAC addresses, and the broadcast address may be listed
ParsedUniverse ==
    { [ip |-> "10.0.0.5",   mac |-> "AA:00:00:00:00:05"],
      [ip |-> "10.0.0.5",   mac |-> "BB:00:00:00:00:05"],
      [ip |-> "10.0.0.23",  mac |-> "AA:00:00:00:00:23"],
      [ip |-> "10.0.0.100", mac |-> "AA:00:00:00:01:00"],
      [ip |-> broadcastIP,  mac |-> "FF:FF:FF:FF:FF:FF"] }

ParsedInputs == UNION { [1..n -> ParsedUniverse] : n \in 0..MaxParsed }

\* the outputs of the ARP pass when a harness reports further devices
FeedParsedInputs ==
    UNION { [1..n -> ParsedUniverse] : n \in 0..MaxPassBeforeFeed }

\* host names the reverse lookup may return (null when it fails)
HostNames == {"pc.home", null}

\* ------------------------------------------------------------------------
\* String helpers used by the sort comparator
\* ------------------------------------------------------------------------

\* value of one decimal digit character
DigitValue(c) ==
    CASE c = "0" -> 0 [] c = "1" -> 1 [] c = "2" -> 2 [] c = "3" -> 3
      [] c = "4" -> 4 [] c = "5" -> 5 [] c = "6" -> 6 [] c = "7" -> 7
      [] c = "8" -> 8 [] c = "9" -> 9

\* Number(s) for a string of decimal digits (Number("") is 0)
RECURSIVE Number(_)
Number(cs) ==
    IF cs = <<>> THEN 0
    ELSE Number(SubSeq(cs, 1, Len(cs) - 1)) * 10 + DigitValue(cs[Len(cs)])

\* s.split('.') on a sequence of characters
RECURSIVE SplitDot(_, _, _)
SplitDot(cs, cur, acc) ==
    IF cs = <<>> THEN Append(acc, cur)
    ELSE IF Head(cs) = "." THEN SplitDot(Tail(cs), <<>>, Append(acc, cur))
    ELSE SplitDot(Tail(cs), Append(cur, Head(cs)), acc)

\* ip.split('.').map(Number)
Octets(ip) ==
    LET parts == SplitDot(Chars(ip), <<>>, <<>>)
    IN  [i \in 1..Len(parts) |-> Number(parts[i])]

\* the comparator given to allDevices.sort: the difference of the first
\* octets that differ, 0 when the four octets agree
RECURSIVE CompareFrom(_, _, _)
CompareFrom(ipA, ipB, i) ==
    IF i > 4 THEN 0
    ELSE IF ipA[i] # ipB[i] THEN ipA[i] - ipB[i]
    ELSE CompareFrom(ipA, ipB, i + 1)

\* comparison of the address strings character by character (what sort()
\* does without a comparator)
RECURSIVE LexCompare(_, _)
LexCompare(ca, cb) ==
    IF ca = <<>> /\ cb = <<>> THEN 0
    ELSE IF ca = <<>> THEN -1
    ELSE IF cb = <<>> THEN 1
    ELSE IF Head(ca) = Head(cb) THEN LexCompare(Tail(ca), Tail(cb))
    ELSE IF Head(ca) = "." THEN -1
    ELSE IF Head(cb) = "." THEN 1
    ELSE DigitValue(Head(ca)) - DigitValue(Head(cb))

\* (variant: the addresses are compared as strings)
compareLexicographic(a, b) == LexCompare(Chars(a.ip), Chars(b.ip))

\* the octets of every address of the model, parsed once
OctetsOf == [ip \in Ips |-> Octets(ip)]

\* the comparator of allDevices.sort
compareDevices(a, b) == CompareFrom(OctetsOf[a.ip], OctetsOf[b.ip], 1)

\* insert d into the sorted sequence s after every element not greater
RECURSIVE InsertSorted(_, _)
InsertSorted(s, d) ==
    IF s = <<>> THEN <<d>>
    ELSE IF compareDevices(d, Head(s)) < 0 THEN <<d>> \o s
    ELSE <<Head(s)>> \o InsertSorted(Tail(s), d)

\* Array.prototype.sort with compareDevices (a stable sort)
RECURSIVE SortDevices(_)
SortDevices(s) ==
    IF s = <<>> THEN <<>>
    ELSE CHOOSE r \in { InsertSorted(front, s[Len(s)]) :
                         front \in {SortDevices(SubSeq(s, 1, Len(s) - 1))} } : TRUE

\* ------------------------------------------------------------------------
\* State
\* ------------------------------------------------------------------------

VARIABLES
    pc,               \* position of startHybridScan / ScannerARP.start
    failure,          \* kind of error startHybridScan rejected with
    interval,         \* objParam.interval
    now,              \* Date.now()
    sessionOpen,      \* sharedPingSession: "none", "open" or "closed"
    arpListeners,     \* listeners of scannerARP, per event, in order
    parsed,           \* the part of parsedDevices that forEach has yet to visit
    seenDevices,      \* seenDevices of scanWithArpScan
    ipArrayResults,   \* scannerARP.ipArrayResults
    pingQueue,        \* sequence of {ip, mac} waiting for a ping
    pingInProgress,   \* set of addresses with a ping in progress
    pingCompleted,    \* Map ip -> deviceInfo, in insertion order
    arpDeviceMap,     \* Map ip -> mac
    lastPingTime,     \* time of the last pingHost call
    arpScanComplete,  \* the ARP pass has emitted complete
    timers,           \* due times of the pending setTimeout(executePing)
    probes,           \* pingHost calls whose callback has not run yet
    enrich,           \* ping callbacks waiting for this.deviceInfos
    dispatched,       \* history: the pingHost calls made, in order
    pingResults,      \* history: call number -> error given to its callback
    timersFired,      \* history: number of setTimeout callbacks run
    listenersAtCall,  \* history: listeners of scannerARP when the run was started
    dateStart,        \* scannerARP.dateStart: <<>> while null, <<t>> once set at t
    events,           \* history: the events LanDiscovery has emitted
    fed,              \* number of response events a harness has emitted
    arpEvents,        \* events ScannerARP.start has emitted, in order
    macInput,         \* the address given to F.normalizeMAC, as characters
    macResults,       \* history: the results of its successive applications
    icmpPc,           \* position of startScan: "idle", "threw" or "scanning"
    ipArrayToScan,    \* scannerICMP.ipArrayToScan
    icmpIpArrayResults, \* scannerICMP.ipArrayResults
    icmpSession,      \* session of ScannerICMP.start: "none", "open", "closed"
    pending,          \* pending of ScannerICMP.start
    nextTimer,        \* index of the next setTimeout callback of start to run
    icmpProbes,       \* indexes whose pingHost has not called back yet
    devicesInfosPromises, \* this.devicesInfosPromises: value <<>> while pending
    allWaits,         \* Promise.all calls not resolved: length of their input
    icmpEvents        \* history: the events scannerICMP has emitted

vars == << pc, failure, interval, now, sessionOpen, arpListeners, parsed, 
                    seenDevices, ipArrayResults, pingQueue, pingInProgress,
           pingCompleted, arpDeviceMap, lastPingTime, arpScanComplete, timers,
           probes, enrich, dispatched, pingResults, timersFired,
           listenersAtCall, dateStart, events, fed, arpEvents, icmpPc,
           ipArrayToScan,
           icmpIpArrayResults, icmpSession, pending, nextTimer, icmpProbes,
           devicesInfosPromises, allWaits, icmpEvents, macInput,
           macResults >>

\* the variables of a standard scan (startScan and ScannerICMP.start)
icmpVars == << icmpPc, ipArrayToScan, icmpIpArrayResults, icmpSession, pending,
               nextTimer, icmpProbes, devicesInfosPromises, allWaits,
               icmpEvents >>

\* the variables of a call of F.normalizeMAC
macVars == << macInput, macResults >>

\* the variables of a hybrid scan (startHybridScan and ScannerARP.start)
hybridVars == << pc, failure, now, sessionOpen, arpListeners, parsed,
                 seenDevices, ipArrayResults, pingQueue, pingInProgress,
                 pingCompleted, arpDeviceMap, lastPingTime, arpScanComplete,
                 timers, probes, enrich, dispatched, pingResults, timersFired,
                 listenersAtCall, dateStart, fed, arpEvents >>

\* the variables owned by one run of startHybridScan, as one record
Closure ==
    [ pingQueue |-> pingQueue, pingInProgress |-> pingInProgress,
      pingCompleted |-> pingCompleted, arpDeviceMap |-> arpDeviceMap,
      lastPingTime |-> lastPingTime, arpScanComplete |-> arpScanComplete,
      timers |-> timers, probes |-> probes, dispatched |-> dispatched,
      events |-> events, sessionOpen |-> sessionOpen,
      arpListeners |-> arpListeners ]

SetClosure(c) ==
    /\ pingQueue' = c.pingQueue
    /\ pingInProgress' = c.pingInProgress
    /\ pingCompleted' = c.pingCompleted
    /\ arpDeviceMap' = c.arpDeviceMap
    /\ lastPingTime' = c.lastPingTime
    /\ arpScanComplete' = c.arpScanComplete
    /\ timers' = c.timers
    /\ probes' = c.probes
    /\ dispatched' = c.dispatched
    /\ events' = c.events
    /\ sessionOpen' = c.sessionOpen
    /\ arpListeners' = c.arpListeners

\* the listeners the constructor of LanDiscovery puts on scannerARP
DefaultListeners == [response |-> <<"default">>, complete |-> <<"default">>]

\* the listeners of a run of startHybridScan
HybridListeners == [response |-> <<"hybrid">>, complete |-> <<"hybrid">>]

\* Map.prototype.has / set / get on a Map kept as a sequence of devices
MapHas(m, ip) == \E i \in 1..Len(m) : m[i].ip = ip

MapSet(m, d) ==
    IF MapHas(m, d.ip)
    THEN [i \in 1..Len(m) |-> IF m[i].ip = d.ip THEN d ELSE m[i]]
    ELSE Append(m, d)

Emit(c, type, data) ==
    [c EXCEPT !.events = Append(@, [type |-> type, data |-> data])]

\* ------------------------------------------------------------------------
\* The closures of startHybridScan
\* ------------------------------------------------------------------------

\* (variant: the test forgets the pings in progress)
CompletionPredicateNoInProgress(c) ==
    /\ c.arpScanComplete
    /\ c.pingQueue = <<>>

\* (variant: the test forgets the queue)
CompletionPredicateNoQueue(c) ==
    /\ c.arpScanComplete
    /\ c.pingInProgress = {}

\* the completion test of checkAndEmitDevicesInfos
CompletionPredicate(c) ==
    /\ c.arpScanComplete
    /\ c.pingInProgress = {}
    /\ c.pingQueue = <<>>

\* (variant: the summary lists the addresses in the order of completion)
checkAndEmitDevicesInfosUnsortedSummary(c) ==
    IF ~CompletionPredicate(c) THEN c
    ELSE CHOOSE finalized \in {
             LET freed == [c EXCEPT !.sessionOpen = "closed",
                                    !.arpListeners = DefaultListeners]
                 summary == [ipArray |-> [i \in 1..Len(allDevices) |-> c.pingCompleted[i].ip],
                             scanCount |-> Len(allDevices)]
             IN  Emit(Emit(freed, "scanComplete", summary), "devicesInfos", allDevices)
             : allDevices \in {SortDevices(c.pingCompleted)} } : TRUE

checkAndEmitDevicesInfos(c) ==
    IF ~CompletionPredicate(c) THEN c
    ELSE CHOOSE finalized \in {
             LET freed == [c EXCEPT !.sessionOpen = "closed",
                                    !.arpListeners = DefaultListeners]
                 summary == [ipArray |-> [i \in 1..Len(allDevices) |-> allDevices[i].ip],
                             scanCount |-> Len(allDevices)]
             IN  Emit(Emit(freed, "scanComplete", summary), "devicesInfos", allDevices)
             : allDevices \in {SortDevices(c.pingCompleted)} } : TRUE

\* (variant: the newest entry of the queue is pinged first)
executePingNewestFirst(c, t) ==
    IF c.pingQueue = <<>> THEN c
    ELSE LET head == c.pingQueue[Len(c.pingQueue)]
             call == [ip |-> head.ip, mac |-> head.mac, time |-> t,
                      session |-> c.sessionOpen]
         IN  [c EXCEPT !.pingQueue = SubSeq(@, 1, Len(@) - 1),
                       !.pingInProgress = @ \cup {head.ip},
                       !.lastPingTime = t,
                       !.dispatched = Append(@, call),
                       !.probes = @ \cup {Len(c.dispatched) + 1}]

executePing(c, t) ==
    IF c.pingQueue = <<>> THEN c
    ELSE LET head == Head(c.pingQueue)
             call == [ip |-> head.ip, mac |-> head.mac, time |-> t,
                      session |-> c.sessionOpen]
         IN  [c EXCEPT !.pingQueue = Tail(@),
                       !.pingInProgress = @ \cup {head.ip},
                       !.lastPingTime = t,
                       !.dispatched = Append(@, call),
                       !.probes = @ \cup {Len(c.dispatched) + 1}]

\* (variant: one ping at a time whatever the interval)
launchNextPingAlwaysSerialized(c, t) ==
    IF c.pingQueue = <<>> THEN c
    ELSE IF c.pingInProgress # {} THEN c
    ELSE LET timeSinceLastPing == t - c.lastPingTime
         IN  IF interval = 0 \/ timeSinceLastPing >= interval
             THEN executePing(c, t)
             ELSE [c EXCEPT !.timers = Append(@, t + (interval - timeSinceLastPing))]

\* (variant: a ping that has to wait for the interval is not rescheduled)
launchNextPingNoTimer(c, t) ==
    IF c.pingQueue = <<>> THEN c
    ELSE IF interval > 0 /\ c.pingInProgress # {} THEN c
    ELSE LET timeSinceLastPing == t - c.lastPingTime
         IN  IF interval = 0 \/ timeSinceLastPing >= interval
             THEN executePing(c, t)
             ELSE c

launchNextPing(c, t) ==
    IF c.pingQueue = <<>> THEN c
    ELSE IF interval > 0 /\ c.pingInProgress # {} THEN c
    ELSE LET timeSinceLastPing == t - c.lastPingTime
         IN  IF interval = 0 \/ timeSinceLastPing >= interval
             THEN executePing(c, t)
             ELSE [c EXCEPT !.timers = Append(@, t + (interval - timeSinceLastPing))]

\* (variant: an address being pinged is queued again)
schedulePingNoInProgressTest(c, ip, mac, t) ==
    IF MapHas(c.pingCompleted, ip) THEN c
    ELSE launchNextPing([c EXCEPT !.pingQueue = Append(@, [ip |-> ip, mac |-> mac]),
                                  !.arpDeviceMap = (ip :> mac) @@ @], t)

schedulePing(c, ip, mac, t) ==
    IF ip \in c.pingInProgress \/ MapHas(c.pingCompleted, ip) THEN c
    ELSE launchNextPing([c EXCEPT !.pingQueue = Append(@, [ip |-> ip, mac |-> mac]),
                                  !.arpDeviceMap = (ip :> mac) @@ @], t)

arpResponseHandler(c, device, t) ==
    schedulePing(Emit(c, "arpResponse", device), device.ip, device.mac, t)

\* (variant: the complete handler leaves the completion test to the pings)
arpCompleteHandlerNoCheck(c, data) ==
    [Emit(c, "arpComplete", data) EXCEPT !.arpScanComplete = TRUE]

\* (variant: arpComplete is emitted after the completion test)
arpCompleteHandlerEmitsLast(c, data) ==
    LET c1 == [c EXCEPT !.arpScanComplete = TRUE]
    IN  IF c1.pingInProgress = {} /\ c1.pingQueue = <<>>
        THEN Emit(checkAndEmitDevicesInfos(c1), "arpComplete", data)
        ELSE Emit(c1, "arpComplete", data)

arpCompleteHandler(c, data) ==
    LET c1 == [Emit(c, "arpComplete", data) EXCEPT !.arpScanComplete = TRUE]
    IN  IF c1.pingInProgress = {} /\ c1.pingQueue = <<>>
        THEN checkAndEmitDevicesInfos(c1)
        ELSE c1

\* scannerARP.emit(EVENT_RESPONSE, device): every listener, in order
RECURSIVE EmitResponse(_, _, _, _)
EmitResponse(c, hs, device, t) ==
    IF hs = <<>> THEN c
    ELSE EmitResponse(IF Head(hs) = "hybrid"
                      THEN arpResponseHandler(c, device, t)
                      ELSE IF Head(hs) = "default"
                      THEN Emit(c, "arpResponse", device)
                      ELSE c,
                      Tail(hs), device, t)

\* scannerARP.emit(EVENT_COMPLETE, data): every listener, in order
RECURSIVE EmitComplete(_, _, _)
EmitComplete(c, hs, data) ==
    IF hs = <<>> THEN c
    ELSE EmitComplete(IF Head(hs) = "hybrid"
                      THEN arpCompleteHandler(c, data)
                      ELSE IF Head(hs) = "default"
                      THEN Emit(c, "arpComplete", data)
                      ELSE c,
                      Tail(hs), data)

\* Scanner.buildScanResult for ScannerARP, whose ipArrayToScan is []
buildScanResult == [ipArray |-> ipArrayResults, scanCount |-> 0]

\* ------------------------------------------------------------------------
\* Initial state: a LanDiscovery object on which no scan has been started
\* ------------------------------------------------------------------------

InitScanners ==
    /\ pc = "idle"
    /\ failure = "none"
    /\ interval = 0
    /\ now = StartTime
    /\ sessionOpen = "none"
    /\ arpListeners = DefaultListeners
    /\ parsed = <<>>
    /\ seenDevices = {}
    /\ ipArrayResults = <<>>
    /\ pingQueue = <<>>
    /\ pingInProgress = {}
    /\ pingCompleted = <<>>
    /\ arpDeviceMap = [ip \in {} |-> null]
    /\ lastPingTime = 0
    /\ arpScanComplete = FALSE
    /\ timers = <<>>
    /\ probes = {}
    /\ enrich = {}
    /\ dispatched = <<>>
    /\ pingResults = [id \in {} |-> FALSE]
    /\ timersFired = 0
    /\ listenersAtCall = DefaultListeners
    /\ dateStart = <<>>
    /\ events = <<>>
    /\ fed = 0
    /\ arpEvents = <<>>
    /\ icmpPc = "idle"
    /\ ipArrayToScan = <<>>
    /\ icmpIpArrayResults = <<>>
    /\ icmpSession = "none"
    /\ pending = 0
    /\ nextTimer = 1
    /\ icmpProbes = {}
    /\ devicesInfosPromises = <<>>
    /\ allWaits = <<>>
    /\ icmpEvents = <<>>

\* no address has been given to F.normalizeMAC
Init ==
    /\ InitScanners
    /\ macInput = <<>>
    /\ macResults = <<>>

\* ------------------------------------------------------------------------
\* startHybridScan up to the start of the ARP pass
\* ------------------------------------------------------------------------

\* the application subscribes a listener of its own to both events of
\* discovery.scannerARP, before it starts a scan
UserSubscribe ==
    /\ pc = "idle"
    /\ arpListeners = DefaultListeners
    /\ arpListeners' = [response |-> Append(arpListeners.response, "user"),
                        complete |-> Append(arpListeners.complete, "user")]
    /\ UNCHANGED << pc, failure, interval, now, sessionOpen, parsed,
                    seenDevices, ipArrayResults, pingQueue, pingInProgress,
                    pingCompleted, arpDeviceMap, lastPingTime, arpScanComplete,
                    timers, probes, enrich, dispatched, pingResults,
                    timersFired, listenersAtCall, dateStart, events,
                    fed, arpEvents, icmpVars, macVars >>

\* the call: networkInterface is "missing", "invalid" (its cidr does not
\* parse) or "valid"; the function then awaits _checkAdminPrivileges
StartHybridScan(networkInterface, ival) ==
    /\ pc = "idle"
    /\ interval' = ival
    /\ listenersAtCall' = arpListeners
    /\ IF networkInterface = "missing"
       THEN pc' = "rejected" /\ failure' = "configuration"
       ELSE pc' = (IF networkInterface = "invalid" THEN "checkAdminBadCidr"
                                                   ELSE "checkAdmin")
            /\ failure' = failure
    /\ UNCHANGED << now, sessionOpen, arpListeners, parsed, seenDevices,
                    ipArrayResults, pingQueue, pingInProgress, pingCompleted,
                    arpDeviceMap, lastPingTime, arpScanComplete, timers,
                    probes, enrich, dispatched, events,
                    pingResults, timersFired,
                    dateStart,
                    fed, arpEvents, icmpVars, macVars >>

\* (variant: the session and the listeners are set up before the rights
\* are looked at)
CheckAdminDoneSessionFirst(hasAdminRights) ==
    /\ pc \in {"checkAdmin", "checkAdminBadCidr"}
    /\ IF ~hasAdminRights
       THEN /\ pc' = "rejected" /\ failure' = "privilege"
            /\ sessionOpen' = "open"
            /\ arpListeners' = HybridListeners
            /\ UNCHANGED << ipArrayResults, dateStart >>
       ELSE IF pc = "checkAdminBadCidr"
       THEN /\ pc' = "rejected" /\ failure' = "configuration"
            /\ UNCHANGED << sessionOpen, arpListeners, ipArrayResults,
                            dateStart >>
       ELSE /\ pc' = "arpStart" /\ failure' = failure
            /\ sessionOpen' = "open"
            /\ arpListeners' = HybridListeners
            /\ ipArrayResults' = <<>>
            /\ dateStart' = <<now>>
    /\ UNCHANGED << interval, now, parsed, seenDevices, pingQueue,
                    pingInProgress, pingCompleted, arpDeviceMap, lastPingTime,
                    arpScanComplete, timers, probes, enrich, dispatched,
                    events,
                    pingResults, timersFired,
                    listenersAtCall,
                    fed, arpEvents, icmpVars, macVars >>

\* _checkAdminPrivileges has answered; without rights the run is rejected,
\* with a cidr that does not parse new Netmask throws, otherwise the ping
\* session is created, the listeners of scannerARP are replaced and
\* scannerARP.start runs up to its first await
CheckAdminDone(hasAdminRights) ==
    /\ pc \in {"checkAdmin", "checkAdminBadCidr"}
    /\ IF ~hasAdminRights
       THEN /\ pc' = "rejected" /\ failure' = "privilege"
            /\ UNCHANGED << sessionOpen, arpListeners, ipArrayResults,
                            dateStart >>
       ELSE IF pc = "checkAdminBadCidr"
       THEN /\ pc' = "rejected" /\ failure' = "configuration"
            /\ UNCHANGED << sessionOpen, arpListeners, ipArrayResults,
                            dateStart >>
       ELSE /\ pc' = "arpStart" /\ failure' = failure
            /\ sessionOpen' = "open"
            /\ arpListeners' = HybridListeners
            /\ ipArrayResults' = <<>>
            /\ dateStart' = <<now>>
    /\ UNCHANGED << interval, now, parsed, seenDevices, pingQueue,
                    pingInProgress, pingCompleted, arpDeviceMap, lastPingTime,
                    arpScanComplete, timers, probes, enrich, dispatched,
                    events,
                    pingResults, timersFired,
                    listenersAtCall,
                    fed, arpEvents, icmpVars, macVars >>

\* ------------------------------------------------------------------------
\* ScannerARP.start
\* ------------------------------------------------------------------------

\* (variant: start may also throw after it has emitted complete)
ArpStartRejectLate ==
    /\ pc \in {"arpStart", "arpCompleted"}
    /\ pc' = "rejected"
    /\ failure' = "discovery"
    /\ sessionOpen' = "closed"
    /\ arpListeners' = DefaultListeners
    /\ UNCHANGED << interval, now, parsed, seenDevices, ipArrayResults,
                    pingQueue, pingInProgress, pingCompleted, arpDeviceMap,
                    lastPingTime, arpScanComplete, timers, probes, enrich,
                    dispatched, events, pingResults, timersFired,
                    listenersAtCall, dateStart,
                    fed, arpEvents, icmpVars, macVars >>

\* start throws before any scan (Scanner.start refusing the empty target
\* list, an invalid broadcast address, no interface name, arp-scan missing):
\* startHybridScan closes the session, restores the listeners and rejects
ArpStartReject ==
    /\ pc = "arpStart"
    /\ pc' = "rejected"
    /\ failure' = "discovery"
    /\ sessionOpen' = "closed"
    /\ arpListeners' = DefaultListeners
    /\ UNCHANGED << interval, now, parsed, seenDevices, ipArrayResults,
                    pingQueue, pingInProgress, pingCompleted, arpDeviceMap,
                    lastPingTime, arpScanComplete, timers, probes, enrich,
                    dispatched, events,
                    pingResults, timersFired,
                    listenersAtCall, dateStart,
                    fed, arpEvents, icmpVars, macVars >>

\* arp-scan is available: scanWithArpScan runs the command
ArpScanRun ==
    /\ pc = "arpStart"
    /\ pc' = "arpScan"
    /\ UNCHANGED << failure, interval, now, sessionOpen, arpListeners, parsed,
                    seenDevices, ipArrayResults, pingQueue,
                    pingInProgress, pingCompleted, arpDeviceMap, lastPingTime,
                    arpScanComplete, timers, probes, enrich, dispatched,
                    events,
                    pingResults, timersFired,
                    listenersAtCall, dateStart,
                    fed, arpEvents, icmpVars, macVars >>

\* variant: the failed command is reported with a complete event
ArpScanFailEmitsComplete ==
    /\ pc = "arpScan"
    /\ pc' = "hung"
    /\ arpEvents' = Append(arpEvents, [type |-> "complete",
                                       data |-> buildScanResult])
    /\ UNCHANGED << failure, interval, now, sessionOpen, arpListeners, parsed,
                    seenDevices, ipArrayResults, pingQueue,
                    pingInProgress, pingCompleted, arpDeviceMap, lastPingTime,
                    arpScanComplete, timers, probes, enrich, dispatched,
                    events,
                    pingResults, timersFired,
                    listenersAtCall, dateStart,
                    fed, icmpVars, macVars >>

\* the command failed with neither stdout nor stderr: the error is thrown
\* again, and the throw in the catch block is raised inside the async
\* executor, so the promise is never settled
ArpScanFail ==
    /\ pc = "arpScan"
    /\ pc' = "hung"
    /\ UNCHANGED << failure, interval, now, sessionOpen, arpListeners, parsed,
                    seenDevices, ipArrayResults, pingQueue,
                    pingInProgress, pingCompleted, arpDeviceMap, lastPingTime,
                    arpScanComplete, timers, probes, enrich, dispatched,
                    events,
                    pingResults, timersFired,
                    listenersAtCall, dateStart,
                    fed, arpEvents, icmpVars, macVars >>

\* the command has exited, or has failed leaving a stdout or a stderr, which
\* is taken as its result: the output has been parsed into parsedDevices
ArpScanOutput(parsedDevices) ==
    /\ pc = "arpScan"
    /\ pc' = "arpEmit"
    /\ parsed' = parsedDevices
    /\ seenDevices' = {}
    /\ UNCHANGED << failure, interval, now, sessionOpen, arpListeners,
                    ipArrayResults, pingQueue, pingInProgress, pingCompleted,
                    arpDeviceMap, lastPingTime, arpScanComplete, timers,
                    probes, enrich, dispatched, events,
                    pingResults, timersFired,
                    listenersAtCall, dateStart,
                    fed, arpEvents, icmpVars, macVars >>

\* variant: the (ip, mac) pairs already seen are emitted again
ArpEmitNextNoDedup ==
    /\ pc = "arpEmit"
    /\ parsed # <<>>
    /\ parsed' = Tail(parsed)
    /\ LET device == Head(parsed)
       IN  IF device.ip = broadcastIP
           THEN UNCHANGED << seenDevices, ipArrayResults, pingQueue,
                             pingInProgress, pingCompleted, arpDeviceMap,
                             lastPingTime, arpScanComplete, timers, probes,
                             dispatched, events, sessionOpen, arpListeners,
                             arpEvents >>
           ELSE /\ seenDevices' = seenDevices \cup {device}
                /\ ipArrayResults' = Append(ipArrayResults, device.ip)
                /\ arpEvents' = Append(arpEvents, [type |-> "response",
                                                   data |-> device])
                /\ SetClosure(EmitResponse(Closure, arpListeners.response,
                                           device, now))
    /\ UNCHANGED << pc, failure, interval, now, enrich,
                    pingResults, timersFired,
                    listenersAtCall, dateStart,
                    fed, icmpVars, macVars >>

\* one iteration of parsedDevices.forEach: the broadcast address and the
\* (ip, mac) pairs already seen are skipped, any other device is emitted
ArpEmitNext ==
    /\ pc = "arpEmit"
    /\ parsed # <<>>
    /\ parsed' = Tail(parsed)
    /\ LET device == Head(parsed)
       IN  IF device.ip = broadcastIP \/ device \in seenDevices
           THEN UNCHANGED << seenDevices, ipArrayResults, pingQueue,
                             pingInProgress, pingCompleted, arpDeviceMap,
                             lastPingTime, arpScanComplete, timers, probes,
                             dispatched, events, sessionOpen, arpListeners,
                             arpEvents >>
           ELSE /\ seenDevices' = seenDevices \cup {device}
                /\ ipArrayResults' = Append(ipArrayResults, device.ip)
                /\ arpEvents' = Append(arpEvents, [type |-> "response",
                                                   data |-> device])
                /\ SetClosure(EmitResponse(Closure, arpListeners.response,
                                           device, now))
    /\ UNCHANGED << pc, failure, interval, now, enrich,
                    pingResults, timersFired,
                    listenersAtCall, dateStart,
                    fed, icmpVars, macVars >>

\* forEach is over: scanWithArpScan resolves and start emits complete
ArpComplete ==
    /\ pc = "arpEmit"
    /\ parsed = <<>>
    /\ pc' = "arpCompleted"
    /\ seenDevices' = {}
    /\ arpEvents' = Append(arpEvents, [type |-> "complete",
                                       data |-> buildScanResult])
    /\ SetClosure(EmitComplete(Closure, arpListeners.complete, buildScanResult))
    /\ UNCHANGED << failure, interval, now, parsed, ipArrayResults, enrich,
                    pingResults, timersFired,
                    listenersAtCall, dateStart,
                    fed, icmpVars, macVars >>

\* scannerARP.start has resolved: startHybridScan returns this
HybridReturn ==
    /\ pc = "arpCompleted"
    /\ pc' = "resolved"
    /\ UNCHANGED << failure, interval, now, sessionOpen, arpListeners, parsed,
                    seenDevices, ipArrayResults, pingQueue,
                    pingInProgress, pingCompleted, arpDeviceMap, lastPingTime,
                    arpScanComplete, timers, probes, enrich, dispatched,
                    events,
                    pingResults, timersFired,
                    listenersAtCall, dateStart,
                    fed, arpEvents, icmpVars, macVars >>

\* ------------------------------------------------------------------------
\* Callbacks of the event loop
\* ------------------------------------------------------------------------

\* the callback of pingHost for call number id, up to await deviceInfos
PingCallback(id, error) ==
    /\ pc = "resolved"
    /\ id \in probes
    /\ LET ip == dispatched[id].ip
           mac == dispatched[id].mac
           knownMAC == IF ip \in DOMAIN arpDeviceMap THEN arpDeviceMap[ip] ELSE mac
       IN  /\ probes' = probes \ {id}
           /\ pingInProgress' = pingInProgress \ {ip}
           /\ pingResults' = (id :> error) @@ pingResults
           /\ enrich' = enrich \cup {[id |-> id, ip |-> ip, mac |-> knownMAC,
                                      error |-> error]}
    /\ UNCHANGED << pc, failure, interval, now, sessionOpen, arpListeners,
                    parsed, seenDevices, ipArrayResults, pingQueue,
                    pingCompleted, arpDeviceMap, lastPingTime, arpScanComplete,
                    timers, dispatched, events,
                    timersFired,
                    listenersAtCall, dateStart,
                    fed, arpEvents, icmpVars, macVars >>

\* (variant: scanResponse is emitted whatever the ping reported)
EnrichDoneAlwaysReachable(e, name) ==
    /\ pc = "resolved"
    /\ e \in enrich
    /\ enrich' = enrich \ {e}
    /\ \E deviceInfo \in {[name |-> name, ip |-> e.ip, mac |-> e.mac,
                            respondsToPing |-> ~e.error]} :
       \E c1 \in {Emit([Closure EXCEPT !.pingCompleted = MapSet(@, deviceInfo)],
                        "deviceInfos", deviceInfo)} :
       \E c2 \in {Emit(c1, "scanResponse", e.ip)} :
       \E c3 \in {launchNextPing(c2, now)} :
       \E c4 \in {checkAndEmitDevicesInfos(c3)} :
           SetClosure(c4)
    /\ UNCHANGED << pc, failure, interval, now, parsed, seenDevices,
                    ipArrayResults,
                    pingResults, timersFired,
                    listenersAtCall, dateStart,
                    fed, arpEvents, icmpVars, macVars >>

\* (variant: a failed lookup ends the callback)
EnrichDoneAbortOnFailure(e, name) ==
    /\ pc = "resolved"
    /\ e \in enrich
    /\ enrich' = enrich \ {e}
    /\ IF name = null
       THEN SetClosure(Closure)
       ELSE
        \E deviceInfo \in {[name |-> name, ip |-> e.ip, mac |-> e.mac,
                                respondsToPing |-> ~e.error]} :
           \E c1 \in {Emit([Closure EXCEPT !.pingCompleted = MapSet(@, deviceInfo)],
                            "deviceInfos", deviceInfo)} :
           \E c2 \in {IF ~e.error THEN Emit(c1, "scanResponse", e.ip) ELSE c1} :
           \E c3 \in {launchNextPing(c2, now)} :
           \E c4 \in {checkAndEmitDevicesInfos(c3)} :
               SetClosure(c4)
    /\ UNCHANGED << pc, failure, interval, now, parsed, seenDevices,
                    ipArrayResults,
                    pingResults, timersFired,
                    listenersAtCall, dateStart,
                    fed, arpEvents, icmpVars, macVars >>

\* this.deviceInfos has resolved with host name `name` (null when the
\* lookup failed): the rest of the pingHost callback
EnrichDone(e, name) ==
    /\ pc = "resolved"
    /\ e \in enrich
    /\ enrich' = enrich \ {e}
    /\ \E deviceInfo \in {[name |-> name, ip |-> e.ip, mac |-> e.mac,
                            respondsToPing |-> ~e.error]} :
       \E c1 \in {Emit([Closure EXCEPT !.pingCompleted = MapSet(@, deviceInfo)],
                        "deviceInfos", deviceInfo)} :
       \E c2 \in {IF ~e.error THEN Emit(c1, "scanResponse", e.ip) ELSE c1} :
       \E c3 \in {launchNextPing(c2, now)} :
       \E c4 \in {checkAndEmitDevicesInfos(c3)} :
           SetClosure(c4)
    /\ UNCHANGED << pc, failure, interval, now, parsed, seenDevices,
                    ipArrayResults,
                    pingResults, timersFired,
                    listenersAtCall, dateStart,
                    fed, arpEvents, icmpVars, macVars >>

\* the most a timer runs ahead of Date.now(), in the unit of the clock
MaxTimerSkew == 1

\* index of the timer that fires next: the earliest due, oldest first
NextTimer ==
    CHOOSE i \in 1..Len(timers) :
        \A j \in 1..Len(timers) :
            timers[i] < timers[j] \/ (timers[i] = timers[j] /\ i <= j)

\* a setTimeout of launchNextPing fires: executePing. Node runs a timer
\* against the clock of its event loop, not against Date.now(): the callback
\* may run while Date.now() is still up to MaxTimerSkew before the due time
TimerFire ==
    /\ pc = "resolved"
    /\ timers # <<>>
    /\ timers[NextTimer] <= now + MaxTimerSkew
    /\ timersFired' = timersFired + 1
    /\ LET i == NextTimer
           c1 == [Closure EXCEPT !.timers =
                      SubSeq(timers, 1, i - 1) \o SubSeq(timers, i + 1, Len(timers))]
       IN  SetClosure(executePing(c1, now))
    /\ UNCHANGED << pc, failure, interval, now, parsed, seenDevices,
                    ipArrayResults, enrich,
                    pingResults,
                    listenersAtCall, dateStart,
                    fed, arpEvents, icmpVars, macVars >>

\* time passes; with interval = 0 launchNextPing never compares two times,
\* so the clock is only advanced in paced runs
Tick ==
    /\ interval > 0
    /\ now < MaxTime \/ \E i \in 1..Len(timers) : timers[i] > now
    /\ now' = now + 1
    /\ UNCHANGED << pc, failure, interval, sessionOpen, arpListeners, parsed,
                    seenDevices, ipArrayResults, pingQueue,
                    pingInProgress, pingCompleted, arpDeviceMap, lastPingTime,
                    arpScanComplete, timers, probes, enrich, dispatched,
                    events,
                    pingResults, timersFired,
                    listenersAtCall, dateStart,
                    fed, arpEvents, icmpVars, macVars >>

Next ==
    \/ UserSubscribe
    \/ \E n \in {"missing", "invalid", "valid"}, i \in Intervals :
           StartHybridScan(n, i)
    \/ \E b \in BOOLEAN : CheckAdminDone(b)
    \/ ArpStartReject
    \/ ArpScanRun
    \/ ArpScanFail
    \/ \E p \in ParsedInputs : ArpScanOutput(p)
    \/ ArpEmitNext
    \/ ArpComplete
    \/ HybridReturn
    \/ \E id \in probes, error \in BOOLEAN : PingCallback(id, error)
    \/ \E e \in enrich, name \in HostNames : EnrichDone(e, name)
    \/ TimerFire
    \/ Tick

Spec == Init /\ [][Next]_vars

\* the event loop runs every callback that is ready: the continuation of
\* startHybridScan, the pingHost callbacks (net-ping answers or times out),
\* the deviceInfos lookups (which always resolve) and the timers once due
SpecLive ==
    /\ Spec
    /\ WF_vars(HybridReturn)
    /\ WF_vars(\E id \in 1..Len(dispatched) :
                   \E error \in BOOLEAN : PingCallback(id, error))
    /\ WF_vars(\E e \in enrich : \E name \in HostNames : EnrichDone(e, name))
    /\ WF_vars(TimerFire)
    /\ WF_vars(Tick)

TypeOK ==
    /\ pc \in {"idle", "checkAdmin", "checkAdminBadCidr", "arpStart", "arpScan",
               "arpEmit", "arpCompleted", "resolved", "rejected", "hung"}
    /\ interval \in Intervals
    /\ pingInProgress \subseteq Ips
    /\ probes \subseteq 1..Len(dispatched)
    /\ dateStart \in {<<>>} \cup { <<t>> : t \in 0..(MaxTime + 1) }
    /\ listenersAtCall \in {DefaultListeners,
                            [response |-> <<"default", "user">>,
                             complete |-> <<"default", "user">>]}

\* ------------------------------------------------------------------------
\* Standard scan: startScan, ScannerICMP.start and the handlers the
\* constructor subscribes to scannerICMP
\* ------------------------------------------------------------------------

\* addresses given to startScan
ScanTargets == {"10.0.0.5", "10.0.0.23"}

\* the values of objParam.ipArrayToScan (the empty array is refused)
ScanInputs == UNION { [1..n -> ScanTargets] : n \in 0..MaxTargets }

\* what deviceMAC may find for an address: nothing, or a MAC address
MacsOf(ip) == {null} \cup { d.mac : d \in { p \in ParsedUniverse : p.ip = ip } }

\* one event of LanDiscovery or of scannerICMP
Event(type, data) == [type |-> type, data |-> data]

\* the first n promises of ps are fulfilled
Settled(ps, n) == \A k \in 1..n : ps[k].value # <<>>

\* the array Promise.all resolves with for the first n promises of ps
ValuesOf(ps, n) == [k \in 1..n |-> ps[k].value[1]]

\* startScan(objParam): validateParamIpArray, then ScannerICMP.start up to
\* the end of forEach (every setTimeout is registered, none has run)
StartScan(ipArray, ival) ==
    /\ pc = "idle"
    /\ icmpPc = "idle"
    /\ IF ipArray = <<>>
       THEN /\ icmpPc' = "threw"
            /\ UNCHANGED << interval, ipArrayToScan, icmpIpArrayResults,
                            icmpSession, pending, nextTimer,
                            devicesInfosPromises >>
       ELSE /\ icmpPc' = "scanning"
            /\ interval' = ival
            /\ devicesInfosPromises' = <<>>
            /\ ipArrayToScan' = ipArray
            /\ icmpIpArrayResults' = <<>>
            /\ icmpSession' = "open"
            /\ pending' = 0
            /\ nextTimer' = 1
    /\ UNCHANGED << hybridVars, macVars, events, icmpProbes, allWaits, icmpEvents >>

\* the setTimeout callback of index nextTimer: the timers run in the order of
\* their index, index * interval after start
IcmpTimerFire ==
    /\ icmpPc = "scanning"
    /\ nextTimer <= Len(ipArrayToScan)
    /\ pending' = pending + 1
    /\ icmpProbes' = icmpProbes \cup {nextTimer}
    /\ nextTimer' = nextTimer + 1
    /\ UNCHANGED << hybridVars, macVars, interval, events, icmpPc, ipArrayToScan,
                    icmpIpArrayResults, icmpSession, devicesInfosPromises,
                    allWaits, icmpEvents >>

\* the callback of pingHost for the target of index i; it may run before the
\* timers of the later targets, whatever the interval. A reply
\* emits response, whose handler emits scanResponse and starts deviceInfos;
\* when pending reaches 0 the callback emits complete, whose handler emits
\* scanComplete and calls Promise.all, and closes the session
IcmpPingCallback(i, error) ==
    /\ icmpPc = "scanning"
    /\ i \in icmpProbes
    /\ LET ip == ipArrayToScan[i]
           results1 == IF error THEN icmpIpArrayResults
                       ELSE Append(icmpIpArrayResults, ip)
           promises1 == IF error THEN devicesInfosPromises
                        ELSE Append(devicesInfosPromises,
                                    [ip |-> ip, value |-> <<>>])
           events1 == IF error THEN events
                      ELSE Append(events, Event("scanResponse", ip))
           icmpEvents1 == IF error THEN icmpEvents
                          ELSE Append(icmpEvents, Event("response", ip))
           summary == [ipArray |-> results1, scanCount |-> Len(results1)]
           settled == Settled(promises1, Len(promises1))
       IN  /\ icmpProbes' = icmpProbes \ {i}
           /\ pending' = pending - 1
           /\ icmpIpArrayResults' = results1
           /\ devicesInfosPromises' = promises1
           /\ IF pending - 1 = 0
              THEN /\ icmpEvents' = Append(icmpEvents1, Event("complete", summary))
                   /\ events' =
                          IF settled
                          THEN events1 \o
                               << Event("scanComplete", summary),
                                  Event("devicesInfos",
                                        ValuesOf(promises1, Len(promises1))) >>
                          ELSE Append(events1, Event("scanComplete", summary))
                   /\ allWaits' = IF settled THEN allWaits
                                  ELSE Append(allWaits, Len(promises1))
                   /\ icmpSession' = "closed"
              ELSE /\ icmpEvents' = icmpEvents1
                   /\ events' = events1
                   /\ UNCHANGED << allWaits, icmpSession >>
    /\ UNCHANGED << hybridVars, macVars, interval, icmpPc, ipArrayToScan, nextTimer >>

\* the promise of index k, this.deviceInfos(ip), is fulfilled: its then
\* callback emits deviceInfos, and every Promise.all whose promises are now
\* all fulfilled emits devicesInfos
IcmpLookupDone(k, name, mac) ==
    /\ icmpPc = "scanning"
    /\ k \in 1..Len(devicesInfosPromises)
    /\ devicesInfosPromises[k].value = <<>>
    /\ LET device == [name |-> name, ip |-> devicesInfosPromises[k].ip,
                      mac |-> mac, respondsToPing |-> TRUE]
           promises1 == [devicesInfosPromises EXCEPT ![k].value = <<device>>]
           resolved == SelectSeq(allWaits, LAMBDA n : Settled(promises1, n))
       IN  /\ devicesInfosPromises' = promises1
           /\ allWaits' = SelectSeq(allWaits, LAMBDA n : ~Settled(promises1, n))
           /\ events' = Append(events, Event("deviceInfos", device)) \o
                        [j \in 1..Len(resolved) |->
                            Event("devicesInfos", ValuesOf(promises1, resolved[j]))]
    /\ UNCHANGED << hybridVars, macVars, interval, icmpPc, ipArrayToScan,
                    icmpIpArrayResults, icmpSession, pending, nextTimer,
                    icmpProbes, icmpEvents >>

NextIcmp ==
    \/ \E a \in ScanInputs, i \in Intervals : StartScan(a, i)
    \/ IcmpTimerFire
    \/ \E i \in icmpProbes, error \in BOOLEAN : IcmpPingCallback(i, error)
    \/ \E k \in 1..Len(devicesInfosPromises), name \in HostNames :
           \E mac \in MacsOf(devicesInfosPromises[k].ip) :
               IcmpLookupDone(k, name, mac)

SpecIcmp == Init /\ [][NextIcmp]_vars

\* ------------------------------------------------------------------------
\* A harness that emits response on scannerARP after the ARP pass
\* ------------------------------------------------------------------------

\* the devices the harness reports
FeedDevices == { d \in ParsedUniverse : d.ip # broadcastIP }

\* discovery.scannerARP.emit('response', device), once startHybridScan has
\* returned: the listeners subscribed at that moment are called
FeedResponse(device) ==
    /\ pc = "resolved"
    /\ fed < MaxFeed
    /\ fed' = fed + 1
    /\ SetClosure(EmitResponse(Closure, arpListeners.response, device, now))
    /\ UNCHANGED << pc, failure, interval, now, parsed, seenDevices,
                    ipArrayResults, enrich, pingResults, timersFired,
                    listenersAtCall, dateStart, arpEvents, icmpVars, macVars >>

NextFeed ==
    \/ \E i \in Intervals : StartHybridScan("valid", i)
    \/ CheckAdminDone(TRUE)
    \/ ArpScanRun
    \/ \E p \in FeedParsedInputs : ArpScanOutput(p)
    \/ ArpEmitNext
    \/ ArpComplete
    \/ HybridReturn
    \/ \E d \in FeedDevices : FeedResponse(d)
    \/ \E id \in probes, error \in BOOLEAN : PingCallback(id, error)
    \/ \E e \in enrich, name \in HostNames : EnrichDone(e, name)
    \/ TimerFire
    \/ Tick

SpecFeed == Init /\ [][NextFeed]_vars

\* ------------------------------------------------------------------------
\* F.normalizeMAC, as deviceIP applies it to the address it is given
\* ------------------------------------------------------------------------

\* the greatest number of successive applications of normalizeMAC
MaxApplications == 2

\* the letters of a hexadecimal digit, in lower and in upper case
LowerLetters == <<"a", "b", "c", "d", "e", "f">>
UpperLetters == <<"A", "B", "C", "D", "E", "F">>

\* the other characters of a hexadecimal digit
Digits == {"0", "1", "2", "3", "4", "5", "6", "7", "8", "9"}

\* String.prototype.toUpperCase, on one character
toUpperCase(ch) ==
    IF \E k \in 1..6 : LowerLetters[k] = ch
    THEN UpperLetters[CHOOSE k \in 1..6 : LowerLetters[k] = ch]
    ELSE ch

\* String.prototype.toLowerCase, on one character
toLowerCase(ch) ==
    IF \E k \in 1..6 : UpperLetters[k] = ch
    THEN LowerLetters[CHOOSE k \in 1..6 : UpperLetters[k] = ch]
    ELSE ch

\* replace(/\-/g, ':'), on one character
replaceDashes(ch) == IF ch = "-" THEN ":" ELSE ch

\* F.normalizeMAC: every '-' becomes ':' and the result is put in upper case
normalizeMAC(m) == [k \in 1..Len(m) |-> toUpperCase(replaceDashes(m[k]))]

\* F.isMAC: six pairs of hexadecimal digits of either case, separated by
\* ':' or '-'
isMAC(m) ==
    /\ Len(m) = 17
    /\ \A k \in 1..17 :
           IF k % 3 = 0
           THEN m[k] \in {":", "-"}
           ELSE toLowerCase(m[k]) \in
                    Digits \cup { LowerLetters[n] : n \in 1..6 }

\* the address of the documentation of normalizeMAC, 04-A1-51-1B-12-92, in
\* lower case
MacExample ==
    << "0", "4", "-", "a", "1", "-", "5", "1", "-", "1", "b", "-",
       "1", "2", "-", "9", "2" >>

\* the ways of writing one character of an address: either separator, a
\* letter in either case
Variants(ch) == IF ch = "-" THEN {"-", ":"} ELSE {ch, toUpperCase(ch)}

\* the ways of writing the first n characters of MacExample
RECURSIVE MacVariants(_)
MacVariants(n) ==
    IF n = 0 THEN {<<>>}
    ELSE { Append(front, ch) : front \in MacVariants(n - 1),
                               ch \in Variants(MacExample[n]) }

\* the addresses given to deviceIP: the valid ways of writing MacExample
MacInputs == { m \in MacVariants(Len(MacExample)) : isMAC(m) }

\* deviceIP is given an address among MacInputs
InitMac ==
    /\ InitScanners
    /\ macInput \in MacInputs
    /\ macResults = <<>>

\* mac = F.normalizeMAC(mac): the function is applied to the address, then
\* to its own result
ApplyNormalizeMAC ==
    /\ macInput # <<>>
    /\ Len(macResults) < MaxApplications
    /\ macResults' =
           Append(macResults,
                  normalizeMAC(IF macResults = <<>> THEN macInput
                               ELSE macResults[Len(macResults)]))
    /\ UNCHANGED << hybridVars, interval, events, icmpVars, macInput >>

NextMac == ApplyNormalizeMAC

SpecMac == InitMac /\ [][NextMac]_vars

\* ------------------------------------------------------------------------
\* Vocabulary of the properties
\* ------------------------------------------------------------------------

\* the positions of the events of one type in the history
EventsOf(type) == { i \in 1..Len(events) : events[i].type = type }

\* the addresses the ARP pass has reported so far
Discovered == { events[i].data.ip : i \in EventsOf("arpResponse") }

\* the addresses listed by the inventory emitted at position i
InventoryIps(i) == { events[i].data[k].ip : k \in 1..Len(events[i].data) }

\* the result of the last ping of address ip that has called back
RespondedToPing(ip) ==
    LET ids == { id \in DOMAIN pingResults : dispatched[id].ip = ip }
        last == CHOOSE id \in ids : \A other \in ids : other <= id
    IN  ~pingResults[last]

\* the events a step appends to the history
NewEvents == SubSeq(events', Len(events) + 1, Len(events'))

\* the step emits the inventory
EmitsInventory == \E k \in 1..Len(NewEvents) : NewEvents[k].type = "devicesInfos"

\* the step is a handler that ends with the completion test: the complete
\* handler (its first event is arpComplete) or the end of a ping callback
\* (its first event is deviceInfos)
RunsCompletionTest ==
    /\ NewEvents # <<>>
    /\ NewEvents[1].type \in {"arpComplete", "deviceInfos"}

\* ------------------------------------------------------------------------
\* Properties
\* ------------------------------------------------------------------------

\* C1: a run that does not fail finalizes at most once: scanComplete is
\* emitted at most once and devicesInfos is emitted at most once.
C1_FinalizationAtMostOnce ==
    /\ Cardinality(EventsOf("scanComplete")) <= 1
    /\ Cardinality(EventsOf("devicesInfos")) <= 1

\* C2: the promise of startHybridScan resolves only after the inventory
\* (devicesInfos) of the run has been emitted.
C2_ResolvedAfterInventory ==
    pc = "resolved" => EventsOf("devicesInfos") # {}

\* C3: with interval = 0 an inventory event carries exactly one device per
\* discovered address, each with respondsToPing equal to the result of its
\* ping.
C3_InventoryCoversDiscovered ==
    interval = 0 =>
        \A i \in EventsOf("devicesInfos") :
            /\ InventoryIps(i) = Discovered
            /\ Len(events[i].data) = Cardinality(Discovered)
            /\ \A k \in 1..Len(events[i].data) :
                   events[i].data[k].respondsToPing =
                       RespondedToPing(events[i].data[k].ip)

\* C4: the inventory is emitted by a step if and only if that step
\* evaluates the completion test with arpScanComplete true, pingInProgress
\* empty and pingQueue empty; it is never emitted before the complete event
\* of the ARP pass nor while a pingHost call has not called back.
C4_EmittedIffPredicate ==
    [][ /\ EmitsInventory <=>
              ( /\ RunsCompletionTest
                /\ arpScanComplete'
                /\ pingInProgress' = {}
                /\ pingQueue' = <<>> )
        /\ EmitsInventory => (EventsOf("arpComplete") # {} \/
                              NewEvents[1].type = "arpComplete")
        /\ EmitsInventory => probes' = {} ]_vars

\* C4 witness: an inventory listing a device has been emitted
C4_Witness ==
    \E i \in EventsOf("devicesInfos") : Len(events[i].data) >= 1

\* C5: a run that is rejected (configuration, privilege or discovery error)
\* has emitted, and later emits, no deviceInfos, scanResponse, scanComplete
\* or devicesInfos event.
C5_FailedRunEmitsNothing ==
    pc = "rejected" =>
        \A i \in 1..Len(events) :
            events[i].type \notin {"deviceInfos", "scanResponse",
                                   "scanComplete", "devicesInfos"}

\* C5 witness: the run was rejected because scannerARP.start failed, after
\* the ping session was created and the listeners replaced
C5_Witness ==
    pc = "rejected" /\ failure = "discovery" /\ sessionOpen = "closed"

\* the order the claim expects: octets compared as numbers
ExpectedOrder == <<"10.0.0.5", "10.0.0.23", "10.0.0.100">>

RankOf(ip) == CHOOSE r \in 1..Len(ExpectedOrder) : ExpectedOrder[r] = ip

\* C6: every inventory is in ascending numeric order of the octets of the
\* addresses (10.0.0.5 before 10.0.0.23 before 10.0.0.100), whatever the
\* order of the ARP responses and of the ping completions.
C6_InventorySortedNumerically ==
    \A i \in EventsOf("devicesInfos") :
        \A k \in 1..(Len(events[i].data) - 1) :
            RankOf(events[i].data[k].ip) < RankOf(events[i].data[k + 1].ip)

\* C6 witness: an inventory of the three addresses has been emitted although
\* the pings completed in the order 10.0.0.100, 10.0.0.23, 10.0.0.5
C6_Witness ==
    /\ \E i \in EventsOf("devicesInfos") : Len(events[i].data) = 3
    /\ Len(pingCompleted) = 3
    /\ pingCompleted[1].ip = "10.0.0.100"
    /\ pingCompleted[2].ip = "10.0.0.23"
    /\ pingCompleted[3].ip = "10.0.0.5"

\* C7: an address scheduled twice before it completes is pinged once and
\* listed once: no two pingHost calls have the same address and no
\* inventory lists an address twice.
C7_OneProbePerAddress ==
    /\ \A i, j \in 1..Len(dispatched) :
           dispatched[i].ip = dispatched[j].ip => i = j
    /\ \A i \in EventsOf("devicesInfos") :
           Cardinality(InventoryIps(i)) = Len(events[i].data)

\* C8: when interval > 0 at most one ping is in flight, also when further
\* responses arrive between the ping callbacks, the lookups and the timers.
C8_OneInFlightWhenPaced ==
    interval > 0 =>
        /\ Cardinality(probes) <= 1
        /\ Cardinality(pingInProgress) <= 1

\* C9: when interval > 0 two consecutive pingHost calls are at least
\* interval apart, also when the later one is made by a timer.
C9_SpacingWhenPaced ==
    interval > 0 =>
        \A i \in 2..Len(dispatched) :
            dispatched[i].time - dispatched[i - 1].time >= interval

\* C10: with interval = 0 every address reported by the ARP pass is pinged
\* when it is scheduled: after the step the queue is empty and the address
\* is in progress.
C10_DispatchedWhenScheduled ==
    [][ ( /\ interval = 0
          /\ NewEvents # <<>>
          /\ NewEvents[1].type = "arpResponse" )
        => ( /\ pingQueue' = <<>>
             /\ NewEvents[1].data.ip \in pingInProgress' ) ]_vars

\* C10 witness: an unpaced run has three pings in flight at once
C10_Witness ==
    /\ interval = 0
    /\ Cardinality(probes) = 3

\* C11: when the complete event of the ARP pass arrives before any response,
\* the same step emits scanComplete with count 0 and then an empty
\* inventory.
C11_EmptyPassFinalizesAtOnce ==
    [][ ( /\ NewEvents # <<>>
          /\ NewEvents[1].type = "arpComplete"
          /\ EventsOf("arpResponse") = {} )
        => ( /\ Len(NewEvents) = 3
             /\ NewEvents[2] = [type |-> "scanComplete",
                                data |-> [ipArray |-> <<>>, scanCount |-> 0]]
             /\ NewEvents[3] = [type |-> "devicesInfos", data |-> <<>>] ) ]_vars

\* C11 witness: the ARP pass found nothing and the run has finalized
C11_Witness ==
    /\ Len(events) = 3
    /\ events[1].type = "arpComplete"
    /\ events[3].type = "devicesInfos"
    /\ dispatched = <<>>


\* the run is over: it was rejected, or it resolved and emitted the inventory
RunOver ==
    \/ pc = "rejected"
    \/ pc = "resolved" /\ EventsOf("devicesInfos") # {}

\* C13: once a run is over, by success or by failure, the listeners of the
\* ARP scanner are the ones that were subscribed when the run was started.
C13_ListenersAsBeforeRun ==
    RunOver => arpListeners = listenersAtCall

\* C14: when the start of the ARP scanner fails, the run is rejected with the
\* ping session closed and the listeners of the ARP scanner as they were
\* when the run was started.
C14_DiscoveryFailureCleansUp ==
    (pc = "rejected" /\ failure = "discovery")
        => /\ sessionOpen = "closed"
           /\ arpListeners = listenersAtCall

\* C15: a run rejected for a missing interface or missing rights has created
\* no session, started no scan and left the listeners as they were.
C15_EarlyRejectionTouchesNothing ==
    (pc = "rejected" /\ failure \in {"configuration", "privilege"})
        => /\ sessionOpen = "none"
           /\ dateStart = <<>>
           /\ dispatched = <<>>
           /\ events = <<>>
           /\ arpListeners = listenersAtCall

\* C15 witness: a run rejected for missing rights, with a listener of the
\* application subscribed
C15_Witness ==
    /\ pc = "rejected"
    /\ failure = "privilege"
    /\ arpListeners.response = <<"default", "user">>


\* the number of places that hold address ip: its entries in pingQueue, its
\* membership of pingInProgress and its entry in pingCompleted
Holdings(ip) ==
    Cardinality({ i \in 1..Len(pingQueue) : pingQueue[i].ip = ip })
    + (IF ip \in pingInProgress THEN 1 ELSE 0)
    + (IF MapHas(pingCompleted, ip) THEN 1 ELSE 0)

\* C19: an address is in at most one of pingQueue, pingInProgress and
\* pingCompleted, and at most once in pingQueue.
C19_OnePlacePerAddress ==
    \A ip \in Ips : Holdings(ip) <= 1

\* C20: once an address has an entry in pingCompleted, no step dispatches a
\* probe for it and no step replaces or removes its entry.
C20_CompletedAppendOnly ==
    [][ \A i \in 1..Len(pingCompleted) :
            /\ i <= Len(pingCompleted')
            /\ pingCompleted'[i] = pingCompleted[i]
            /\ \A k \in (Len(dispatched) + 1)..Len(dispatched') :
                   dispatched'[k].ip # pingCompleted[i].ip ]_vars


\* C16: once the ARP scanner has emitted complete, and with every ping and
\* every lookup calling back, the inventory is eventually emitted.
C16_CompleteLeadsToInventory ==
    (EventsOf("arpComplete") # {}) ~> (EventsOf("devicesInfos") # {})

\* C16 witness: a paced run emitted the inventory after a ping that had to wait
\* for a timer
C16_Witness ==
    /\ interval > 0
    /\ timersFired > 0
    /\ pingQueue = <<>>
    /\ EventsOf("devicesInfos") # {}


\* the positions of the events of one type in the history of scannerICMP
IcmpEventsOf(type) == { i \in 1..Len(icmpEvents) : icmpEvents[i].type = type }

\* C17: scannerICMP emits complete at most once, no response follows it, and
\* when it has been emitted every target has been pinged and has answered or
\* timed out.
C17_ProbeProtocol ==
    /\ Cardinality(IcmpEventsOf("complete")) <= 1
    /\ \A i \in IcmpEventsOf("complete") :
           /\ \A j \in IcmpEventsOf("response") : j < i
           /\ nextTimer > Len(ipArrayToScan)
           /\ icmpProbes = {}

\* C18: in a standard scan devicesInfos is emitted at most once, after
\* scanComplete and after every deviceInfos, with one record per
\* scanResponse and the addresses of the scanResponse events.
C18_StandardInventory ==
    /\ Cardinality(EventsOf("devicesInfos")) <= 1
    /\ \A i \in EventsOf("devicesInfos") :
           /\ \E k \in EventsOf("scanComplete") : k < i
           /\ \A k \in EventsOf("deviceInfos") : k < i
           /\ Len(events[i].data) = Cardinality(EventsOf("scanResponse"))
           /\ InventoryIps(i) = { events[k].data : k \in EventsOf("scanResponse") }


\* the responses of scannerARP that came after its complete event and before
\* the first inventory
LateResponses ==
    { j \in EventsOf("arpResponse") :
        /\ \E k \in EventsOf("arpComplete") : k < j
        /\ \A i \in EventsOf("devicesInfos") : j < i }

\* C12: an address reported after the complete event, while the run has not
\* emitted its inventory, is in the inventory the run then emits.
C12_LateResponsesInInventory ==
    \A i \in EventsOf("devicesInfos") :
        (\A h \in EventsOf("devicesInfos") : i <= h)
            => \A j \in LateResponses : events[j].data.ip \in InventoryIps(i)


\* C21: no two pingHost calls that have not called back are for the same
\* address.
C21_OneOutstandingPerAddress ==
    \A id1, id2 \in probes :
        dispatched[id1].ip = dispatched[id2].ip => id1 = id2

\* C21 witness: an address was reported a second time while its ping had not
\* called back, and it has one pingHost call
C21_Witness ==
    \E id \in probes :
        /\ Cardinality({ j \in EventsOf("arpResponse") :
                             events[j].data.ip = dispatched[id].ip }) = 2
        /\ Cardinality({ k \in 1..Len(dispatched) :
                             dispatched[k].ip = dispatched[id].ip }) = 1


\* C22: after a step that handles a response of the ARP pass, arpDeviceMap
\* holds the MAC address of that response for its address.
C22_KnownMacLastWriteWins ==
    [][ \A k \in 1..Len(NewEvents) :
            NewEvents[k].type = "arpResponse"
                => /\ NewEvents[k].data.ip \in DOMAIN arpDeviceMap'
                   /\ arpDeviceMap'[NewEvents[k].data.ip] = NewEvents[k].data.mac
      ]_vars


\* the {ip, mac} entries a step hands to pingHost, in order
NewlyDispatched ==
    [k \in 1..(Len(dispatched') - Len(dispatched)) |->
        [ip |-> dispatched'[Len(dispatched) + k].ip,
         mac |-> dispatched'[Len(dispatched) + k].mac]]

\* C23: every step takes the entries it pings from the front of pingQueue, in
\* order, and puts the entry it admits at the back: the pings are dispatched
\* in the order of admission.
C23_DispatchInAdmissionOrder ==
    [][ LET after == NewlyDispatched \o pingQueue'
        IN  /\ Len(after) \in {Len(pingQueue), Len(pingQueue) + 1}
            /\ SubSeq(after, 1, Len(pingQueue)) = pingQueue ]_vars

\* C23 witness: a paced run has pinged three addresses that waited in the
\* queue, in the order the ARP pass reported them
C23_Witness ==
    /\ interval > 0
    /\ Len(dispatched) = 3
    /\ Cardinality(EventsOf("arpResponse")) = 3
    /\ \A k \in 1..3 :
           dispatched[k].ip = events[CHOOSE j \in EventsOf("arpResponse") :
               Cardinality({ h \in EventsOf("arpResponse") : h <= j }) = k].data.ip
    /\ Cardinality({ dispatched[k].ip : k \in 1..3 }) = 3


\* the pingHost calls whose callback has run to its end
Finished == { id \in DOMAIN pingResults : ~\E e \in enrich : e.id = id }

\* C24: an address has one deviceInfos event per finished ping and one
\* scanResponse event per finished ping that answered, and every scanResponse
\* comes right after the deviceInfos of the same ping.
C24_EventsPerProbeResult ==
    /\ \A ip \in Ips :
           /\ Cardinality({ i \in EventsOf("deviceInfos") : events[i].data.ip = ip })
                  = Cardinality({ id \in Finished : dispatched[id].ip = ip })
           /\ Cardinality({ i \in EventsOf("scanResponse") : events[i].data = ip })
                  = Cardinality({ id \in Finished :
                                      dispatched[id].ip = ip /\ ~pingResults[id] })
    /\ \A j \in EventsOf("scanResponse") :
           /\ j > 1
           /\ events[j - 1].type = "deviceInfos"
           /\ events[j - 1].data.ip = events[j].data
           /\ events[j - 1].data.respondsToPing

\* C24 witness: one ping answered, another did not, and both callbacks have
\* run to their end
C24_Witness ==
    \E id1, id2 \in Finished : pingResults[id1] /\ ~pingResults[id2]

\* the lookups a step brings to their end
EndedLookups == enrich \ enrich'

\* C25: the step that ends a lookup, failed or not, puts the device in
\* pingCompleted with the known MAC address and the result of the ping (name
\* null when the lookup failed), emits its deviceInfos, leaves no queued ping
\* without a ping in progress or a timer, and emits the inventory when the
\* completion test holds.
C25_LookupFailureDoesNotAbort ==
    [][ \A e \in EndedLookups :
            /\ NewEvents # <<>>
            /\ NewEvents[1].type = "deviceInfos"
            /\ NewEvents[1].data.ip = e.ip
            /\ NewEvents[1].data.mac = e.mac
            /\ NewEvents[1].data.respondsToPing = ~e.error
            /\ \E k \in 1..Len(pingCompleted') : pingCompleted'[k] = NewEvents[1].data
            /\ pingQueue' # <<>> => (pingInProgress' # {} \/ timers' # <<>>)
            /\ (arpScanComplete /\ pingInProgress' = {} /\ pingQueue' = <<>>)
                   => EmitsInventory ]_vars

\* C25 witness: a lookup failed, its device is in pingCompleted with name null
\* and the run went on to emit the inventory
C25_Witness ==
    /\ \E k \in 1..Len(pingCompleted) : pingCompleted[k].name = null
    /\ \E i \in EventsOf("deviceInfos") : events[i].data.name = null
    /\ EventsOf("devicesInfos") # {}


\* C26: every pingHost call was made on the open session, never on the
\* closed one.
C26_NoPingAfterClose ==
    \A k \in 1..Len(dispatched) : dispatched[k].session = "open"

\* C26 witness: a paced run whose timers dispatched pings has closed its
\* session
C26_Witness ==
    /\ sessionOpen = "closed"
    /\ interval > 0
    /\ timersFired > 0
    /\ Len(dispatched) >= 2


\* C27: every inventory directly follows a scanComplete whose scanCount is
\* the number of its devices and whose ipArray is the sequence of their
\* addresses, and every scanComplete is followed by such an inventory.
C27_SummaryMatchesInventory ==
    /\ \A i \in EventsOf("devicesInfos") :
           /\ i > 1
           /\ events[i - 1].type = "scanComplete"
           /\ events[i - 1].data.scanCount = Len(events[i].data)
           /\ events[i - 1].data.ipArray =
                  [k \in 1..Len(events[i].data) |-> events[i].data[k].ip]
    /\ \A j \in EventsOf("scanComplete") :
           j < Len(events) /\ events[j + 1].type = "devicesInfos"

\* C27 witness: an inventory of three devices that completed in another
\* order than the sorted one
C27_Witness ==
    \E i \in EventsOf("devicesInfos") :
        /\ Len(events[i].data) = 3
        /\ events[i].data # pingCompleted


\* C28: once the run has emitted its inventory, no step changes the
\* listeners of scannerARP or emits scanComplete or devicesInfos.
C28_NothingAfterInventory ==
    [][ EventsOf("devicesInfos") # {}
            => /\ arpListeners' = arpListeners
               /\ \A k \in 1..Len(NewEvents) :
                      NewEvents[k].type \notin {"scanComplete", "devicesInfos"}
      ]_vars


\* C29: every address handed to pingHost is in pingInProgress or in
\* pingCompleted, and the completion test does not hold while a lookup is
\* pending.
C29_NoLimbo ==
    /\ \A k \in 1..Len(dispatched) :
           \/ dispatched[k].ip \in pingInProgress
           \/ MapHas(pingCompleted, dispatched[k].ip)
    /\ CompletionPredicate(Closure) => enrich = {}


\* C30: arpComplete precedes every scanComplete, an arpResponse of the
\* address precedes every deviceInfos, and every device of an inventory had
\* its deviceInfos emitted before the inventory.
C30_EventOrder ==
    /\ \A j \in EventsOf("scanComplete") :
           \E k \in EventsOf("arpComplete") : k < j
    /\ \A j \in EventsOf("deviceInfos") :
           \E k \in EventsOf("arpResponse") :
               k < j /\ events[k].data.ip = events[j].data.ip
    /\ \A i \in EventsOf("devicesInfos") :
           \A n \in 1..Len(events[i].data) :
               \E j \in EventsOf("deviceInfos") :
                   j < i /\ events[j].data = events[i].data[n]

\* C30 witness: a run has emitted an inventory of two devices
C30_Witness ==
    \E i \in EventsOf("devicesInfos") : Len(events[i].data) = 2


\* ScannerARP.start runs to its end: the availability check answers, the
\* command exits or fails, the forEach over the parsed devices is finished
\* and the continuations of the awaits are run
SpecStartLive ==
    /\ SpecLive
    /\ WF_vars(ArpStartReject \/ ArpScanRun)
    /\ WF_vars(ArpScanFail \/ \E p \in ParsedInputs : ArpScanOutput(p))
    /\ WF_vars(ArpEmitNext)
    /\ WF_vars(ArpComplete)

\* the promise returned by ScannerARP.start has been settled
StartSettled == pc \in {"arpCompleted", "resolved", "rejected"}

\* C31: every call of ScannerARP.start settles: once start has been called,
\* its promise is eventually resolved or rejected.
C31_StartAlwaysSettles == (pc = "arpStart") ~> StartSettled



\* the positions in arpEvents of the events of one type
ArpEventsOf(type) ==
    { i \in 1..Len(arpEvents) : arpEvents[i].type = type }

\* C32: ScannerARP.start emits one response per host found (the addresses of
\* its responses are ipArrayResults, in order), at most one complete, and
\* every response before it; a pass that has resolved has emitted exactly
\* one complete, whose summary lists the hosts of the responses, and a pass
\* that failed (start rejected, or never settled) has emitted none.
C32_ProbeEventProtocol ==
    /\ Len(ipArrayResults) = Cardinality(ArpEventsOf("response"))
    /\ \A r \in ArpEventsOf("response") :
           /\ r <= Len(ipArrayResults)
           /\ arpEvents[r].data.ip = ipArrayResults[r]
    /\ Cardinality(ArpEventsOf("complete")) <= 1
    /\ \A c \in ArpEventsOf("complete") :
           /\ c = Len(arpEvents)
           /\ arpEvents[c].data.ipArray =
                  [r \in 1..(c - 1) |-> arpEvents[r].data.ip]
    /\ pc \in {"arpCompleted", "resolved"} =>
           Cardinality(ArpEventsOf("complete")) = 1
    /\ pc \in {"rejected", "hung"} => ArpEventsOf("complete") = {}

\* C32 witness: a pass that found two hosts has emitted its two responses
\* and then its complete event
C32_Witness ==
    /\ pc = "arpCompleted"
    /\ Len(arpEvents) = 3
    /\ arpEvents[1].type = "response"
    /\ arpEvents[2].type = "response"
    /\ arpEvents[3].type = "complete"



\* C33: within one pass ScannerARP.start emits no response for the
\* broadcast address and no two responses for the same (ip, mac) pair,
\* whether the devices come from the output of a command that succeeded or
\* of one that failed.
C33_ResponsesDistinct ==
    /\ \A r \in ArpEventsOf("response") :
           arpEvents[r].data.ip # broadcastIP
    /\ \A r1, r2 \in ArpEventsOf("response") :
           r1 # r2 => arpEvents[r1].data # arpEvents[r2].data

\* C33 witness: the output of the command has been gone through and the
\* same address has been emitted twice, with two different mac values
C33_Witness ==
    /\ pc = "arpEmit"
    /\ parsed = <<>>
    /\ \E r1, r2 \in ArpEventsOf("response") :
           /\ arpEvents[r1].data.ip = arpEvents[r2].data.ip
           /\ arpEvents[r1].data.mac # arpEvents[r2].data.mac



\* C34: the summary of ScannerARP counts the targets found: in its complete
\* event scanCount is the length of ipArray (ipArrayResults).
C34_ArpCountIsTargetsFound ==
    \A c \in ArpEventsOf("complete") :
        arpEvents[c].data.scanCount = Len(arpEvents[c].data.ipArray)



\* C35: the result of normalizeMAC is its argument with every '-' replaced
\* by ':' and every letter in lower case, and applying normalizeMAC to a
\* result gives that result again.
C35_NormalizeMACLowerCase ==
    \A k \in 1..Len(macResults) :
        /\ macResults[k] =
               [i \in 1..Len(macInput) |->
                    toLowerCase(replaceDashes(macInput[i]))]
        /\ k > 1 => macResults[k] = macResults[k - 1]

====
